---- MODULE Spec2Model ----
(***************************************************************************)
(* trex-controller: the workload reconciler (apply / update / delete) of   *)
(* src/controller/main.go with the network plumbing of src/unnamed/part_001*)
(* and the cfg writer of src/controller/trex_config.go, as a state machine *)
(* over the host state (containers, host links, VF VLAN table, cfg files). *)
(* Every call to the container engine, netlink or the file system is one   *)
(* step of the request that makes it and may fail.                         *)
(***************************************************************************)
EXTENDS Integers, Sequences, FiniteSets, TLC

\* ------------------------------------------------------------------ bounds
\* concurrent HTTP request handlers
NumProcs == 2
\* container IDs the engine hands out (bounds the number of ContainerCreate calls)
MaxID == 4
\* calls to the engine, netlink or the file system that fail in one behaviour
MaxFaults == 1

Procs == 1..NumProcs

\* ------------------------------------------------------------------ names
\* Names are sequences of one-character strings, so that prefixes, lengths and
\* substrings are computed as the Go code computes them.
N_t1 == <<"t", "1">>
N_t10 == <<"t", "1", "0">>
N_a10 == <<"a", "b", "c", "d", "e", "f", "g", "h", "i", "j">>
N_a11 == N_a10 \o <<"k">>
N_b11 == SubSeq(N_a10, 1, 9) \o <<"x", "y">>
S_slash == <<"/">>
S_pause == <<"-", "p", "a", "u", "s", "e">>
S_trex_ == <<"t", "r", "e", "x", "_">>
S_tmp == <<"t", "m", "p">>
S_mgmt == <<"m", "g", "m", "t">>
S_eno1 == <<"e", "n", "o", "1">>
S_v == <<"v">>

\* const brName = "trex-br0"
brName == <<"t", "r", "e", "x", "-", "b", "r", "0">>

\* strconv.Itoa for the VF indexes of the model (0..99)
Digit(d) == <<"0", "1", "2", "3", "4", "5", "6", "7", "8", "9">>[d + 1]
Itoa(n) == IF n < 10 THEN <<Digit(n)>> ELSE <<Digit(n \div 10), Digit(n % 10)>>

\* strings.Contains(s, sub)
Contains(s, sub) ==
    \E i \in 0..(Len(s) - Len(sub)) : SubSeq(s, i + 1, i + Len(sub)) = sub

\* fmt.Sprintf("%sv%d", parentIfName, vfIndex)
vfNameOf(parent, vfIndex) == parent \o S_v \o Itoa(vfIndex)

\* getPairName: the host and the peer veth name of a workload
getPairNameBase(name) == IF Len(name) > 10 THEN SubSeq(name, 1, 9) ELSE name
getPairName(name, pauseID) ==
    [host |-> S_trex_ \o getPairNameBase(name), cont |-> S_tmp \o getPairNameBase(name)]

\* the container names the engine lists: "/<name>" and "/<name>-pause"
workName(name) == S_slash \o name
pauseName(name) == S_slash \o name \o S_pause

\* ------------------------------------------------------------------ host facts
\* VFs of the parent NIC present under /sys/class/net (eno1v0, eno1v1); eno1v7 is not
ExistingVFs == {0, 1}
VFIndexes == {0, 1, 7}
VlanIds == {0, 100, 200}

\* ------------------------------------------------------------------ requests
Port(vf, vlan) == [vfIndex |-> vf, vlanId |-> vlan, ip |-> <<>>, gateway |-> <<>>]

BaseConfig(name, nt, ports) ==
    [name |-> name, image |-> "trex:v3", mgmtIP |-> "10.0.0.5/24",
     mgmtGateway |-> "10.0.0.1", brName |-> <<>>, networkType |-> nt,
     parentInterface |-> S_eno1, port |-> ports]

\* The submitted TRExConfig values of the model: valid SRIOV and BRIDGE specs, a
\* spec naming a VF that does not exist, a spec whose brName is the name getPairName
\* gives its host veth, and one spec per validation failure.
Configs ==
    { BaseConfig(N_t1, "", <<Port(0, 100)>>),
      [BaseConfig(N_t1, "SRIOV", <<Port(0, 100)>>) EXCEPT !.brName = S_trex_ \o N_t1],
      BaseConfig(N_t1, "SRIOV", <<Port(1, 200), Port(7, 100)>>),
      BaseConfig(N_t1, "BRIDGE", <<Port(0, 100)>>),
      BaseConfig(N_t10, "SRIOV", <<Port(1, 200)>>),
      BaseConfig(<<>>, "SRIOV", <<Port(0, 100)>>),
      [BaseConfig(N_t1, "SRIOV", <<Port(0, 100)>>) EXCEPT !.image = ""],
      [BaseConfig(N_t1, "SRIOV", <<Port(0, 100)>>) EXCEPT !.mgmtIP = ""],
      [BaseConfig(N_t1, "SRIOV", <<Port(0, 100)>>) EXCEPT !.mgmtGateway = ""],
      BaseConfig(N_t1, "SRIOV", <<>>) }

\* the configs of the concurrent specification: a valid spec and a spec that fails
\* validation
ConcConfigs ==
    { BaseConfig(N_t1, "", <<Port(0, 100)>>),
      [BaseConfig(N_t1, "SRIOV", <<Port(0, 100)>>) EXCEPT !.image = ""] }

\* the configs of the cfg writer's specification: valid SRIOV specs of one and of two
\* ports whose VFs exist
CfgConfigs ==
    { BaseConfig(N_t1, "SRIOV", <<Port(0, 100)>>),
      BaseConfig(N_t1, "SRIOV", <<Port(1, 200), Port(0, 100)>>) }

\* the configs of the veth naming specification: workload names of 10 and of 11
\* bytes with the same first 9 bytes
VethConfigs ==
    { BaseConfig(N_a10, "SRIOV", <<Port(0, 100)>>),
      BaseConfig(N_a11, "SRIOV", <<Port(0, 100)>>),
      BaseConfig(N_b11, "SRIOV", <<Port(1, 200)>>) }

\* a port with an address and a gateway of its own
PortWithIP(vf, vlan, ip, gw) == [vfIndex |-> vf, vlanId |-> vlan, ip |-> ip, gateway |-> gw]

\* the configs of the dummy address specification: one port whose address has a
\* /30, a /31 and a /32 prefix
DummyConfigs ==
    { BaseConfig(N_t1, "SRIOV", <<PortWithIP(0, 100, <<10, 0, 0, 1, 30>>, <<10, 0, 0, 2>>)>>),
      BaseConfig(N_t1, "SRIOV", <<PortWithIP(0, 100, <<10, 0, 0, 0, 31>>, <<10, 0, 0, 1>>)>>),
      BaseConfig(N_t1, "SRIOV", <<PortWithIP(0, 100, <<10, 0, 0, 1, 32>>, <<10, 0, 0, 2>>)>>) }

NoConfig == BaseConfig(<<>>, "", <<>>)

\* ------------------------------------------------------------------ state
VARIABLES
    mu,          \* sync.Mutex mu: 0 when free, else the request holding it
    containers,  \* the engine's containers: records id, name, status, netmode, ns
    links,       \* links of the host network namespace
    vfVlan,      \* VLAN programmed on each VF of the parent NIC
    cfgFiles,    \* /tmp/trex/<name>_trex_cfg.yaml: records name, content
    nextID,      \* the next container ID the engine hands out
    faults,      \* calls the host has failed so far
    pc,          \* the position of each request handler
    op,          \* "apply", "update", "delete" ("" when idle)
    config,      \* the request's TRExConfig
    state,       \* the deploymentState of CreateTRExContainer
    loc,         \* the handler's local variables, err and result
    pre,         \* host state when the request last acquired mu
    lastApply    \* the last completed operation when it was a successful apply

vars == <<mu, containers, links, vfVlan, cfgFiles, nextID, faults,
          pc, op, config, state, loc, pre, lastApply>>

hostVars == <<containers, links, vfVlan, cfgFiles, nextID>>

\* the host state the contracts speak of
Host == [containers |-> containers, links |-> links, vfVlan |-> vfVlan,
         cfgFiles |-> cfgFiles]

\* a host state with the links named b left out ("modulo bridge presence")
ModBridge(h, b) == [h EXCEPT !.links = {l \in h.links : l.name # b}]

\* the zero values: the empty container ID "", the host state before any snapshot
NoID == 0
NoHost == [containers |-> {}, links |-> {}, vfVlan |-> [v \in ExistingVFs |-> 0],
           cfgFiles |-> {}]
NoApply == [valid |-> FALSE, name |-> <<>>, pre |-> NoHost]
NoNs == [link |-> "none", up |-> FALSE, addr |-> FALSE, route |-> FALSE, peerOf |-> <<>>]

InitState == [bridgeCreated |-> FALSE, pauseContainerID |-> NoID, pausePID |-> 0,
              workerContainerID |-> NoID, networkConfigured |-> FALSE]

InitLoc == [pauseID |-> NoID, pid |-> 0, workerID |-> NoID, containerID |-> NoID,
            vfPCIMap |-> {}, cfgPath |-> <<>>, listed |-> FALSE, retry |-> 0,
            obs |-> "", routeErr |-> "", err |-> "", result |-> ""]

\* a regular interface squatting the bridge name
Squatter == [name |-> brName, kind |-> "device", up |-> FALSE, master |-> <<>>, peer |-> <<>>]

Init ==
    /\ mu = 0
    /\ containers = {}
    /\ links \in {{}, {Squatter}}
    /\ vfVlan = [v \in ExistingVFs |-> 0]
    /\ cfgFiles = {}
    /\ faults = 0
    /\ nextID = 1
    /\ pc = [p \in Procs |-> "idle"]
    /\ op = [p \in Procs |-> ""]
    /\ config = [p \in Procs |-> NoConfig]
    /\ state = [p \in Procs |-> InitState]
    /\ loc = [p \in Procs |-> InitLoc]
    /\ pre = [p \in Procs |-> NoHost]
    /\ lastApply = NoApply

\* ------------------------------------------------------------------ helpers
\* The host fails a call only while fewer than MaxFaults calls have failed.
Benign == {"ok", "route_unreach", "route_eexist", "alive", "no_pid", "not_alive"}
Outcomes(S) == IF faults < MaxFaults THEN S ELSE S \cap Benign
FaultyBool == IF faults < MaxFaults THEN BOOLEAN ELSE {TRUE}
FaultyPorts(n) == IF faults < MaxFaults THEN 0..n ELSE {0}
Inject(failed) == faults' = IF failed THEN faults + 1 ELSE faults

Fail(p, e) == [loc EXCEPT ![p].err = e]

Goto(p, l) == [pc EXCEPT ![p] = l]

\* mu.Lock(): blocks while another request holds the mutex
muLockNoWait(p) == mu' = p
\* a lock that is given up when its holder's deployment fails, before compensation
muLockUntilFailure(p) ==
    (IF mu = 0 THEN TRUE ELSE pc[mu] \in {"cl_worker", "cl_net", "cl_pause"}) /\ mu' = p

muLock(p) == mu = 0 /\ mu' = p

\* an Unlock that is skipped on the error returns
muUnlockOnSuccess(p) == mu' = IF loc[p].err = "" THEN 0 ELSE mu

\* defer mu.Unlock()
muUnlock(p) == mu' = 0

\* the handler has returned: its frame is gone
Return(p) ==
    /\ pc' = Goto(p, "idle")
    /\ op' = [op EXCEPT ![p] = ""]
    /\ config' = [config EXCEPT ![p] = NoConfig]
    /\ state' = [state EXCEPT ![p] = InitState]
    /\ loc' = [loc EXCEPT ![p] = InitLoc]
    /\ pre' = [pre EXCEPT ![p] = NoHost]

\* LoadConfig: the validation error, "" when the spec is accepted
LoadConfigErr(c) ==
    IF c.name = <<>> THEN "name"
    ELSE IF c.image = "" THEN "image"
    ELSE IF c.mgmtIP = "" THEN "mgmtIP"
    ELSE IF c.mgmtGateway = "" THEN "mgmtGateway"
    ELSE IF Len(c.port) = 0 THEN "port"
    ELSE ""

\* LoadConfig: the defaults it fills in
LoadConfigDefaults(c) ==
    [c EXCEPT !.networkType = IF @ = "" THEN "SRIOV" ELSE @,
              !.brName = IF @ = <<>> THEN brName ELSE @]

\* netlink.LinkDel: the link goes, and with a veth its peer in the host namespace
LinkDel(ls, n) ==
    LET gone == {l \in ls : l.name = n}
        peers == {l.peer : l \in gone}
    IN {l \in ls : l.name # n /\ l.name \notin (peers \ {<<>>})}

\* netlink.LinkDel of a veth whose peer sits in a container's namespace
NsLinkDel(cs, n) ==
    {IF c.ns.peerOf = n /\ n # <<>> THEN [c EXCEPT !.ns = NoNs] ELSE c : c \in cs}

\* ContainerRemove(id, force): the container goes, with its namespace
ContainerRemove(cs, id) == {c \in cs : c.id # id}

HasLink(ls, n) == \E l \in ls : l.name = n

\* ------------------------------------------------------------------ apply
\* A new request is served by the lowest free handler (handlers are interchangeable).
FreeHandler(p) == pc[p] = "idle" /\ \A q \in Procs : q < p => pc[q] # "idle"

\* createTRExContainer: mu.Lock() of an apply request with a config of C
createTRExContainer_Lock(p, C) ==
    /\ FreeHandler(p)
    /\ nextID + 1 <= MaxID
    /\ muLock(p)
    /\ \E c \in C : config' = [config EXCEPT ![p] = c]
    /\ op' = [op EXCEPT ![p] = "apply"]
    /\ pre' = [pre EXCEPT ![p] = Host]
    /\ pc' = Goto(p, "c_load")
    /\ UNCHANGED <<hostVars, faults, state, loc, lastApply>>

\* createTRExContainer: LoadConfig under the lock
createTRExContainer_LoadConfig(p) ==
    /\ pc[p] = "c_load"
    /\ IF LoadConfigErr(config[p]) # ""
       THEN /\ loc' = Fail(p, "load_config")
            /\ pc' = Goto(p, "c_unlock")
            /\ UNCHANGED config
       ELSE /\ config' = [config EXCEPT ![p] = LoadConfigDefaults(@)]
            /\ pc' = Goto(p, "c_list")
            /\ UNCHANGED loc
    /\ UNCHANGED <<mu, hostVars, faults, op, state, pre, lastApply>>

\* the name-collision test: strings.Contains(cname, name) over every listed name
\* a collision check on the bare name, without the engine's leading slash
NameEquals(cs, name) == \E c \in cs : c.name = name

NameCollides(cs, name) == \E c \in cs : Contains(c.name, name)

\* createTRExContainer: ContainerList and the name-collision check
createTRExContainer_List(p) ==
    /\ pc[p] = "c_list"
    /\ \E ok \in FaultyBool : Inject(~ok) /\
         IF ~ok
         THEN /\ loc' = Fail(p, "list")
              /\ pc' = Goto(p, "c_unlock")
         ELSE IF NameCollides(containers, config[p].name)
         THEN /\ loc' = [loc EXCEPT ![p].err = "exists", ![p].listed = TRUE]
              /\ pc' = Goto(p, "c_unlock")
         ELSE /\ loc' = [loc EXCEPT ![p].listed = TRUE]
              /\ pc' = Goto(p, "ensure_image")
    /\ UNCHANGED <<mu, hostVars, op, config, state, pre, lastApply>>

\* const pauseImage
pauseImage == "k8s.gcr.io/pause:3.8"

\* CreateTRExContainer step 1: ensureImageExists of the pause image, then of the
\* TREx image (inspect, and pull when the image is not found); the engine's image
\* store is not part of the host state the contracts speak of
CreateTRExContainer_EnsureImages(p) ==
    /\ pc[p] = "ensure_image"
    /\ \E o1, o2 \in Outcomes({"ok", "inspect_fail", "pull_fail"}) :
         /\ Inject(o1 # "ok" \/ o2 # "ok")
         /\ IF o1 # "ok"
            THEN /\ loc' = Fail(p, "pause_image")
                 /\ pc' = Goto(p, "cl_worker")
            ELSE IF o2 # "ok"
            THEN /\ loc' = Fail(p, "trex_image")
                 /\ pc' = Goto(p, "cl_worker")
            ELSE /\ pc' = Goto(p, "ensure_bridge")
                 /\ UNCHANGED loc
    /\ UNCHANGED <<mu, containers, links, vfVlan, cfgFiles, nextID, op, config,
                   state, pre, lastApply>>

\* an EnsureBridge for which LinkAdd's EEXIST is an error
EnsureBridgeNoEexist(ls, b, out) ==
    IF out = "add_fail" \/ HasLink(ls, b) THEN [err |-> "add", links |-> ls]
    ELSE IF out = "lookup_fail" THEN [err |-> "lookup", links |-> ls]
    ELSE IF out = "up_fail" THEN [err |-> "set_up", links |-> ls]
    ELSE [err |-> "",
          links |-> ls \cup {[name |-> b, kind |-> "bridge", up |-> TRUE,
                              master |-> <<>>, peer |-> <<>>]}]

\* an EnsureBridge that takes whatever link carries the name for its bridge
EnsureBridgeAnyLink(ls, b, out) ==
    LET added == IF HasLink(ls, b) THEN ls
                 ELSE ls \cup {[name |-> b, kind |-> "bridge", up |-> FALSE,
                                master |-> <<>>, peer |-> <<>>]}
    IN IF out = "add_fail" THEN [err |-> "add", links |-> ls]
       ELSE IF out = "lookup_fail" THEN [err |-> "lookup", links |-> added]
       ELSE IF out = "up_fail" THEN [err |-> "set_up", links |-> added]
       ELSE [err |-> "",
             links |-> {IF l.name = b THEN [l EXCEPT !.up = TRUE] ELSE l : l \in added}]

\* EnsureBridge: LinkAdd (EEXIST tolerated), bridgeByName (LinkByName, then the
\* link must be a bridge), LinkSetUp
EnsureBridge(ls, b, out) ==
    LET added == IF HasLink(ls, b) THEN ls
                 ELSE ls \cup {[name |-> b, kind |-> "bridge", up |-> FALSE,
                                master |-> <<>>, peer |-> <<>>]}
    IN IF out = "add_fail" THEN [err |-> "add", links |-> ls]
       ELSE IF out = "lookup_fail" THEN [err |-> "lookup", links |-> added]
       ELSE IF \E l \in added : l.name = b /\ l.kind # "bridge"
       THEN [err |-> "not_a_bridge", links |-> added]
       ELSE IF out = "up_fail" THEN [err |-> "set_up", links |-> added]
       ELSE [err |-> "",
             links |-> {IF l.name = b THEN [l EXCEPT !.up = TRUE] ELSE l : l \in added}]

\* CreateTRExContainer step 2
CreateTRExContainer_EnsureBridge(p) ==
    /\ pc[p] = "ensure_bridge"
    /\ \E out \in Outcomes({"ok", "add_fail", "lookup_fail", "up_fail"}) :
         Inject(out \notin Benign) /\
         LET r == EnsureBridge(links, config[p].brName, out)
         IN /\ links' = r.links
            /\ IF r.err # ""
               THEN /\ loc' = Fail(p, r.err)
                    /\ pc' = Goto(p, "cl_worker")
                    /\ UNCHANGED state
               ELSE /\ state' = [state EXCEPT ![p].bridgeCreated = TRUE]
                    /\ pc' = Goto(p, "pause_create")
                    /\ UNCHANGED loc
    /\ UNCHANGED <<mu, containers, vfVlan, cfgFiles, nextID, op, config,
                   pre, lastApply>>

\* ------------------------------------------------------------------ pause
\* createAndStartPauseContainer: ContainerCreate(pauseImage, NetworkMode none)
createAndStartPauseContainer_Create(p) ==
    /\ pc[p] = "pause_create"
    /\ \E ok \in FaultyBool : Inject(~ok) /\
         IF ~ok \/ (\E c \in containers : c.name = pauseName(config[p].name))
         THEN /\ loc' = Fail(p, "pause_create")
              /\ pc' = Goto(p, "cl_worker")
              /\ UNCHANGED <<containers, nextID>>
         ELSE /\ containers' = containers \cup
                    {[id |-> nextID, name |-> pauseName(config[p].name),
                      status |-> "created", netmode |-> <<"none", NoID>>,
                      pid |-> 0, ns |-> NoNs]}
              /\ nextID' = nextID + 1
              /\ loc' = [loc EXCEPT ![p].pauseID = nextID]
              /\ pc' = Goto(p, "pause_start")
    /\ UNCHANGED <<mu, links, vfVlan, cfgFiles, op, config, state,
                   pre, lastApply>>

\* ContainerStart: the container runs, with a process of its own
ContainerStart(cs, id) ==
    {IF c.id = id THEN [c EXCEPT !.status = "running", !.pid = id] ELSE c : c \in cs}

\* createAndStartPauseContainer: ContainerStart; on failure it returns "", 0, err
createAndStartPauseContainer_Start(p) ==
    /\ pc[p] = "pause_start"
    /\ \E ok \in FaultyBool : Inject(~ok) /\
         IF ~ok
         THEN /\ loc' = Fail(p, "pause_start")
              /\ pc' = Goto(p, "cl_worker")
              /\ UNCHANGED containers
         ELSE /\ containers' = ContainerStart(containers, loc[p].pauseID)
              /\ loc' = [loc EXCEPT ![p].retry = 0]
              /\ pc' = Goto(p, "pause_pid")
    /\ UNCHANGED <<mu, links, vfVlan, cfgFiles, nextID, op, config, state,
                   pre, lastApply>>

\* const maxRetries
maxRetries == 5

\* what one ContainerInspect plus isProcessAlive can show
InspectObs == {"inspect_err", "not_running", "no_pid", "not_alive", "alive"}

\* a getValidContainerPID that takes the PID without isProcessAlive
getValidContainerPID_NoAliveCheck(i, o) ==
    IF i >= maxRetries THEN "err"
    ELSE IF o = "inspect_err" THEN "err"
    ELSE IF o = "not_running" THEN "err"
    ELSE IF o \in {"alive", "not_alive"} THEN "pid"
    ELSE "retry"

\* getValidContainerPID, one pass of its loop on observation o at attempt i (0-based):
\* "pid" (return pid), "err" (return an error) or "retry"
getValidContainerPID_Attempt(i, o) ==
    IF i >= maxRetries THEN "err"
    ELSE IF o = "inspect_err" THEN "err"
    ELSE IF o = "not_running" THEN "err"
    ELSE IF o = "alive" THEN "pid"
    ELSE "retry"

\* createAndStartPauseContainer: getValidContainerPID, one inspect per step (none
\* once maxRetries attempts are made); obs is what the last inspect showed; on
\* success CreateTRExContainer records pauseContainerID and pausePID
createAndStartPauseContainer_GetPID(p) ==
    /\ pc[p] = "pause_pid"
    /\ \E o \in (IF loc[p].retry < maxRetries THEN Outcomes(InspectObs) ELSE {loc[p].obs}) :
         Inject(loc[p].retry < maxRetries /\ o \notin Benign) /\
         LET r == getValidContainerPID_Attempt(loc[p].retry, o)
         IN IF r = "err"
            THEN /\ loc' = [loc EXCEPT ![p].obs = o, ![p].err = "pause_pid"]
                 /\ pc' = Goto(p, "cl_worker")
                 /\ UNCHANGED state
            ELSE IF r = "pid"
            THEN /\ loc' = [loc EXCEPT ![p].obs = o, ![p].pid = loc[p].pauseID]
                 /\ state' = [state EXCEPT ![p].pauseContainerID = loc[p].pauseID,
                                           ![p].pausePID = loc[p].pauseID]
                 /\ pc' = Goto(p, "net_veth")
            ELSE /\ loc' = [loc EXCEPT ![p].obs = o, ![p].retry = @ + 1]
                 /\ UNCHANGED <<state, pc>>
    /\ UNCHANGED <<mu, hostVars, op, config, pre, lastApply>>

\* ------------------------------------------------------------------ network
Veth(n, peer) == [name |-> n, kind |-> "veth", up |-> FALSE, master |-> <<>>, peer |-> peer]

\* createVethPair: delete residue by name (LinkDel's result is ignored), LinkAdd,
\* look both ends up
createVethPair(ls, hostName, contName, out) ==
    LET cleaned == IF out = "del_fail" THEN ls
                   ELSE LinkDel(LinkDel(ls, hostName), contName)
    IN IF out = "add_fail" \/ HasLink(cleaned, hostName) \/ HasLink(cleaned, contName)
       THEN [err |-> "veth_add", links |-> cleaned]
       ELSE [err |-> IF out = "find_fail" THEN "veth_find" ELSE "",
             links |-> cleaned \cup {Veth(hostName, contName), Veth(contName, hostName)}]

\* configurePauseContainerNetwork: createVethPair
configurePauseContainerNetwork_Veth(p) ==
    /\ pc[p] = "net_veth"
    /\ \E out \in Outcomes({"ok", "del_fail", "add_fail", "find_fail"}) : Inject(out \notin Benign) /\
         LET n == getPairName(config[p].name, state[p].pauseContainerID)
             r == createVethPair(links, n.host, n.cont, out)
         IN /\ links' = r.links
            /\ containers' = IF out = "del_fail" THEN containers
                             ELSE NsLinkDel(containers, n.host)
            /\ IF r.err # ""
               THEN /\ loc' = Fail(p, r.err)
                    /\ pc' = Goto(p, "cl_worker")
               ELSE /\ pc' = Goto(p, "net_master")
                    /\ UNCHANGED loc
    /\ UNCHANGED <<mu, vfVlan, cfgFiles, nextID, op, config, state,
                   pre, lastApply>>

\* configurePauseContainerNetwork: LinkSetMaster(hostVeth, br); br is the handle
\* EnsureBridge returned, and the call fails when that link is gone
configurePauseContainerNetwork_SetMaster(p) ==
    /\ pc[p] = "net_master"
    /\ \E ok \in FaultyBool : Inject(~ok) /\
         LET n == getPairName(config[p].name, state[p].pauseContainerID)
             gone == ~\E l \in links : l.name = config[p].brName /\ l.kind = "bridge"
         IN IF ~ok \/ gone
            THEN /\ loc' = Fail(p, "veth_master")
                 /\ pc' = Goto(p, "cl_worker")
                 /\ UNCHANGED links
            ELSE /\ links' = {IF l.name = n.host
                              THEN [l EXCEPT !.master = config[p].brName]
                              ELSE l : l \in links}
                 /\ pc' = Goto(p, "net_up")
                 /\ UNCHANGED loc
    /\ UNCHANGED <<mu, containers, vfVlan, cfgFiles, nextID, op, config,
                   state, pre, lastApply>>

\* configurePauseContainerNetwork: LinkSetUp(hostVeth)
configurePauseContainerNetwork_SetUp(p) ==
    /\ pc[p] = "net_up"
    /\ \E ok \in FaultyBool : Inject(~ok) /\
         LET n == getPairName(config[p].name, state[p].pauseContainerID)
         IN IF ~ok
            THEN /\ loc' = Fail(p, "veth_up")
                 /\ pc' = Goto(p, "cl_worker")
                 /\ UNCHANGED links
            ELSE /\ links' = {IF l.name = n.host THEN [l EXCEPT !.up = TRUE]
                              ELSE l : l \in links}
                 /\ pc' = Goto(p, "net_setns")
                 /\ UNCHANGED loc
    /\ UNCHANGED <<mu, containers, vfVlan, cfgFiles, nextID, op, config,
                   state, pre, lastApply>>

\* configurePauseContainerNetwork: netnsPathFD (panics when the open fails: the
\* deferred cleanup sees err = nil and does nothing, the deferred Unlock runs),
\* then LinkSetNsFd moves the peer into the pause container's namespace
configurePauseContainerNetwork_SetNs(p) ==
    /\ pc[p] = "net_setns"
    /\ \E out \in Outcomes({"ok", "open_panic", "setns_fail"}) : Inject(out \notin Benign) /\
         LET n == getPairName(config[p].name, state[p].pauseContainerID)
         IN IF out = "open_panic"
            THEN /\ loc' = Fail(p, "panic")
                 /\ pc' = Goto(p, "c_unlock")
                 /\ UNCHANGED <<links, containers>>
            ELSE IF out = "setns_fail"
            THEN /\ loc' = Fail(p, "veth_setns")
                 /\ pc' = Goto(p, "cl_worker")
                 /\ UNCHANGED <<links, containers>>
            ELSE /\ links' = {IF l.name = n.host THEN [l EXCEPT !.peer = <<>>] ELSE l :
                              l \in {k \in links : k.name # n.cont}}
                 /\ containers' =
                      {IF c.pid = state[p].pausePID /\ c.pid # 0
                       THEN [c EXCEPT !.ns = [NoNs EXCEPT !.link = "tmp", !.peerOf = n.host]]
                       ELSE c : c \in containers}
                 /\ pc' = Goto(p, "net_vf")
                 /\ UNCHANGED loc
    /\ UNCHANGED <<mu, vfVlan, cfgFiles, nextID, op, config, state,
                   pre, lastApply>>

\* the PCI address sysfs gives for a VF
PciOf(vfIndex) == <<"0000:01:10", vfIndex>>

\* vfPCIMap[vfName] = pci
MapPut(m, k, v) == {e \in m : e.vf # k} \cup {[vf |-> k, pci |-> v]}
MapHas(m, k) == \E e \in m : e.vf = k
MapGet(m, k) == (CHOOSE e \in m : e.vf = k).pci

\* configVFNetwork: for each port in order, resolve the VF's PCI address, record it,
\* program the VLAN on the parent; the first failure returns (nil, err) and leaves
\* what was programmed.  failAt names the port whose call the host fails (0: none),
\* kind the failing call.
RECURSIVE configVFNetworkFrom(_, _, _, _, _, _)
configVFNetworkFrom(c, i, m, vlan, failAt, kind) ==
    IF i > Len(c.port) THEN [err |-> "", map |-> m, vlan |-> vlan]
    ELSE LET port == c.port[i]
             vfName == vfNameOf(c.parentInterface, port.vfIndex)
         IN IF port.vfIndex \notin ExistingVFs \/ (failAt = i /\ kind = "resolve")
            THEN [err |-> "vf_resolve", map |-> {}, vlan |-> vlan]
            ELSE IF failAt = i /\ kind = "vlan"
            THEN [err |-> "vf_vlan", map |-> {}, vlan |-> vlan]
            ELSE configVFNetworkFrom(c, i + 1, MapPut(m, vfName, PciOf(port.vfIndex)),
                                     [vlan EXCEPT ![port.vfIndex] = port.vlanId],
                                     failAt, kind)

configVFNetwork(c, vlan, failAt, kind) == configVFNetworkFrom(c, 1, {}, vlan, failAt, kind)

\* configurePauseContainerNetwork: configVFNetwork when networkType is SRIOV
configurePauseContainerNetwork_VF(p) ==
    /\ pc[p] = "net_vf"
    /\ IF config[p].networkType = "SRIOV"
       THEN \E failAt \in FaultyPorts(Len(config[p].port)), kind \in {"resolve", "vlan"} :
              Inject(failAt # 0) /\
              LET r == configVFNetwork(config[p], vfVlan, failAt, kind)
              IN /\ vfVlan' = r.vlan
                 /\ IF r.err # ""
                    THEN /\ loc' = Fail(p, r.err)
                         /\ pc' = Goto(p, "cl_worker")
                    ELSE /\ loc' = [loc EXCEPT ![p].vfPCIMap = r.map]
                         /\ pc' = Goto(p, "net_ns")
       ELSE /\ loc' = [loc EXCEPT ![p].vfPCIMap = {}]
            /\ pc' = Goto(p, "net_ns")
            /\ UNCHANGED <<vfVlan, faults>>
    /\ UNCHANGED <<mu, containers, links, cfgFiles, nextID, op, config,
                   state, pre, lastApply>>

\* what netlink.RouteAdd returns under the outcome out ("" when it is not reached
\* or succeeds)
RouteErrOf(out) ==
    IF out = "route_unreach" THEN "ENETUNREACH"
    ELSE IF out = "route_eexist" THEN "EEXIST"
    ELSE IF out = "route_fail" THEN "other"
    ELSE ""

\* the namespace action without the ENETUNREACH case: only EEXIST is tolerated
NetNsActionStrict(ns, out) ==
    IF out = "enter_fail" THEN [err |-> "netns_enter", ns |-> ns]
    ELSE IF out = "rename_fail" THEN [err |-> "rename", ns |-> ns]
    ELSE IF out = "up_fail" THEN [err |-> "mgmt_up", ns |-> [ns EXCEPT !.link = "mgmt"]]
    ELSE IF out = "addr_fail"
    THEN [err |-> "addr_add", ns |-> [ns EXCEPT !.link = "mgmt", !.up = TRUE]]
    ELSE IF out \in {"route_fail", "route_unreach"}
    THEN [err |-> "route_add",
          ns |-> [ns EXCEPT !.link = "mgmt", !.up = TRUE, !.addr = TRUE]]
    ELSE IF out = "route_eexist"
    THEN [err |-> "", ns |-> [ns EXCEPT !.link = "mgmt", !.up = TRUE, !.addr = TRUE]]
    ELSE [err |-> "",
          ns |-> [ns EXCEPT !.link = "mgmt", !.up = TRUE, !.addr = TRUE, !.route = TRUE]]

\* a namespace action whose errors are dropped
NetNsActionNoErr(ns, out) == [err |-> "", ns |-> NetNsActionStrict(ns, out).ns]

\* the action run inside the pause namespace: rename the peer to mgmt, set it up,
\* add mgmtIP, add the default route (EEXIST and ENETUNREACH are not errors)
NetNsAction(ns, out) ==
    IF out = "enter_fail" THEN [err |-> "netns_enter", ns |-> ns]
    ELSE IF out = "rename_fail" THEN [err |-> "rename", ns |-> ns]
    ELSE IF out = "up_fail" THEN [err |-> "mgmt_up", ns |-> [ns EXCEPT !.link = "mgmt"]]
    ELSE IF out = "addr_fail"
    THEN [err |-> "addr_add", ns |-> [ns EXCEPT !.link = "mgmt", !.up = TRUE]]
    ELSE IF out = "route_fail"
    THEN [err |-> "route_add",
          ns |-> [ns EXCEPT !.link = "mgmt", !.up = TRUE, !.addr = TRUE]]
    ELSE IF out \in {"route_unreach", "route_eexist"}
    THEN [err |-> "", ns |-> [ns EXCEPT !.link = "mgmt", !.up = TRUE, !.addr = TRUE]]
    ELSE [err |-> "",
          ns |-> [ns EXCEPT !.link = "mgmt", !.up = TRUE, !.addr = TRUE, !.route = TRUE]]

\* configurePauseContainerNetwork: ns.WithNetNSPath; on success CreateTRExContainer
\* sets networkConfigured
configurePauseContainerNetwork_InNs(p) ==
    /\ pc[p] = "net_ns"
    /\ \E out \in Outcomes({"ok", "enter_fail", "rename_fail", "up_fail", "addr_fail",
                   "route_fail", "route_unreach", "route_eexist"}) : Inject(out \notin Benign) /\
         LET inNs == {c \in containers : c.pid = state[p].pausePID /\ c.pid # 0}
             r(c) == NetNsAction(c.ns, out)
         IN /\ containers' = {IF c \in inNs THEN [c EXCEPT !.ns = r(c).ns] ELSE c :
                              c \in containers}
            /\ loc' = [loc EXCEPT ![p].routeErr = RouteErrOf(out),
                                  ![p].err = NetNsAction(NoNs, out).err]
            /\ IF NetNsAction(NoNs, out).err # ""
               THEN /\ pc' = Goto(p, "cl_worker")
                    /\ UNCHANGED state
               ELSE /\ state' = [state EXCEPT ![p].networkConfigured = TRUE]
                    /\ pc' = Goto(p, "worker_cfg")
    /\ UNCHANGED <<mu, links, vfVlan, cfgFiles, nextID, op, config,
                   pre, lastApply>>

\* ------------------------------------------------------------------ cfg and worker
\* make([]T, n): n zero values
ZeroSeq(n, z) == [k \in 1..n |-> z]

\* generateRandomIPWithGateway(i): "192.168.<i>.<10+i>/24", "192.168.<i>.1"
generateRandomIPWithGateway(i) ==
    [ip |-> <<192, 168, i, 10 + i, 24>>, gateway |-> <<192, 168, i, 1>>]

\* the ip and gateway createVFConfigFile uses for port number i (0-based)
PortAddr(port, i) ==
    IF port.ip # <<>> /\ port.gateway # <<>>
    THEN [ip |-> port.ip, gateway |-> port.gateway]
    ELSE generateRandomIPWithGateway(i)

\* the number of host bits a mask of ones bits leaves in byte k of an address
HostBits(ones, k) ==
    LET h == 32 - ones - 8 * (4 - k) IN IF h < 0 THEN 0 ELSE IF h > 8 THEN 8 ELSE h

\* net.ParseCIDR of <<a, b, c, d, ones>>: the network address (the address under
\* the mask) and the number of addresses 1 << (bits - ones)
ParseCIDR(cidr) ==
    [ip |-> [k \in 1..4 |-> cidr[k] - (cidr[k] % (2 ^ HostBits(cidr[5], k)))],
     totalIPs |-> 2 ^ (32 - cidr[5])]

\* the values rand.Uint32() % totalIPs takes in the model: the network and the
\* broadcast host number, the gateway's, the real IP's of the first port, a free one
RandomHosts == {0, 1, 10, 77, 255}

\* the draws of the dummy address specification
DummyHosts == {0, 1, 2, 3}

\* of these, the draws that are rejected or give a free address
FreeRandomHosts == {0, 77, 255}

\* generateRandomIP, one turn of its loop with the draw rnd of rand.Uint32():
\* randomHost is the draw modulo totalIPs, the address is the network address
\* plus randomHost, byte by byte; the network and the broadcast host number go
\* back to the draw; the scan of excludeIP ends in a continue of the scan itself,
\* so the address is returned whether or not it is excluded
generateRandomIP(cidr, excludeIP, rnd) ==
    LET ipNet == ParseCIDR(cidr)
        randomHost == rnd % ipNet.totalIPs
        ip == <<(ipNet.ip[1] + ((randomHost \div 16777216) % 256)) % 256,
                (ipNet.ip[2] + ((randomHost \div 65536) % 256)) % 256,
                (ipNet.ip[3] + ((randomHost \div 256) % 256)) % 256,
                (ipNet.ip[4] + (randomHost % 256)) % 256>>
    IN IF ipNet.totalIPs <= 1 THEN [err |-> "too_small", redraw |-> FALSE, ip |-> <<>>]
       ELSE IF randomHost = 0 \/ randomHost = ipNet.totalIPs - 1
       THEN [err |-> "", redraw |-> TRUE, ip |-> <<>>]
       ELSE IF \E k \in 1..Len(excludeIP) : Len(excludeIP[k]) # 4
       THEN [err |-> "exclude_invalid", redraw |-> FALSE, ip |-> <<>>]
       ELSE [err |-> "", redraw |-> FALSE, ip |-> ip]

\* createVFConfigFile, the loop over config.Spec.Port from port i on: interfaces and
\* port_info are appended to; a VF without an entry in vfPCIMap aborts.  draws[i]
\* is the draw generateRandomIP returns with for port i; its error is dropped
RECURSIVE createVFConfigFileFrom(_, _, _, _, _)
createVFConfigFileFrom(c, m, i, acc, draws) ==
    IF i > Len(c.port) THEN acc
    ELSE LET port == c.port[i]
             vfName == vfNameOf(c.parentInterface, port.vfIndex)
             a == PortAddr(port, i - 1)
             excludeIP == <<SubSeq(a.ip, 1, 4), a.gateway>>
             d == generateRandomIP(a.ip, excludeIP, draws[i])
         IN IF ~MapHas(m, vfName) THEN [acc EXCEPT !.err = "vf_pci_missing"]
            ELSE createVFConfigFileFrom(c, m, i + 1,
                   [acc EXCEPT
                      !.redraw = @ \/ d.redraw,
                      !.interfaces = @ \o <<MapGet(m, vfName), <<"dummy">>>>,
                      !.port_info = @ \o <<[ip |-> a.ip, default_gateway |-> a.gateway],
                                           [ip |-> d.ip, default_gateway |-> a.gateway]>>],
                   draws)

\* a cfg writer that does not look the VFs up in vfPCIMap
createVFConfigFileNoLookup(c, m, draws) ==
    [err |-> "", redraw |-> FALSE, port_limit |-> Cardinality(m) * 2, version |-> 2,
     interfaces |-> ZeroSeq(Cardinality(m) * 2, <<>>),
     port_info |-> ZeroSeq(Cardinality(m) * 2, [ip |-> <<>>, default_gateway |-> <<>>])]

\* createVFConfigFile: the TrexPortConfig it builds (err "" on success); redraw
\* tells that one of draws is a draw generateRandomIP does not return with
createVFConfigFile(c, m, draws) ==
    createVFConfigFileFrom(c, m, 1,
        [err |-> "", redraw |-> FALSE, port_limit |-> Cardinality(m) * 2, version |-> 2,
         interfaces |-> ZeroSeq(Cardinality(m) * 2, <<>>),
         port_info |-> ZeroSeq(Cardinality(m) * 2, [ip |-> <<>>, default_gateway |-> <<>>])],
        draws)

\* createWorkerContainer: createVFConfigFile, which writes /tmp/trex/<name>_trex_cfg.yaml;
\* R is the set the draws of generateRandomIP come from
createWorkerContainer_Cfg(p, R) ==
    /\ pc[p] = "worker_cfg"
    /\ \E out \in Outcomes({"ok", "mkdir_fail", "write_fail"}),
          draws \in [1..Len(config[p].port) -> R] : Inject(out \notin Benign) /\
         LET r == createVFConfigFile(config[p], loc[p].vfPCIMap, draws)
         IN /\ ~r.redraw
            /\ IF r.err # "" \/ out # "ok"
               THEN /\ loc' = Fail(p, IF r.err # "" THEN r.err ELSE out)
                    /\ pc' = Goto(p, "cl_worker")
                    /\ UNCHANGED cfgFiles
               ELSE /\ cfgFiles' = {f \in cfgFiles : f.name # config[p].name} \cup
                                   {[name |-> config[p].name, content |-> r]}
                    /\ loc' = [loc EXCEPT ![p].cfgPath = config[p].name]
                    /\ pc' = Goto(p, "worker_create")
    /\ UNCHANGED <<mu, containers, links, vfVlan, nextID, op, config,
                   state, pre, lastApply>>

\* createWorkerContainer: ContainerCreate(NetworkMode container:<pauseID>)
createWorkerContainer_Create(p) ==
    /\ pc[p] = "worker_create"
    /\ \E ok \in FaultyBool : Inject(~ok) /\
         IF ~ok \/ (\E c \in containers : c.name = workName(config[p].name))
         THEN /\ loc' = Fail(p, "worker_create")
              /\ pc' = Goto(p, "cl_worker")
              /\ UNCHANGED <<containers, nextID>>
         ELSE /\ containers' = containers \cup
                    {[id |-> nextID, name |-> workName(config[p].name),
                      status |-> "created",
                      netmode |-> <<"container", state[p].pauseContainerID>>,
                      pid |-> 0, ns |-> NoNs]}
              /\ nextID' = nextID + 1
              /\ loc' = [loc EXCEPT ![p].workerID = nextID]
              /\ pc' = Goto(p, "worker_start")
    /\ UNCHANGED <<mu, links, vfVlan, cfgFiles, op, config, state,
                   pre, lastApply>>

\* createWorkerContainer: ContainerStart; on failure it returns "", err; on success
\* CreateTRExContainer records workerContainerID and returns it
createWorkerContainer_Start(p) ==
    /\ pc[p] = "worker_start"
    /\ \E ok \in FaultyBool : Inject(~ok) /\
         IF ~ok
         THEN /\ loc' = Fail(p, "worker_start")
              /\ pc' = Goto(p, "cl_worker")
              /\ UNCHANGED <<containers, state>>
         ELSE /\ containers' = ContainerStart(containers, loc[p].workerID)
              /\ state' = [state EXCEPT ![p].workerContainerID = loc[p].workerID]
              /\ loc' = [loc EXCEPT ![p].result = "created"]
              /\ pc' = Goto(p, "c_unlock")
    /\ UNCHANGED <<mu, links, vfVlan, cfgFiles, nextID, op, config,
                   pre, lastApply>>

\* ------------------------------------------------------------------ compensation
\* cleanupOnError: remove the worker when state.workerContainerID is set
cleanupOnError_Worker(p) ==
    /\ pc[p] = "cl_worker"
    /\ \E ok \in (IF state[p].workerContainerID # NoID THEN FaultyBool ELSE {TRUE}) :
         Inject(~ok) /\
         containers' = IF state[p].workerContainerID # NoID /\ ok
                       THEN ContainerRemove(containers, state[p].workerContainerID)
                       ELSE containers
    /\ pc' = Goto(p, "cl_net")
    /\ UNCHANGED <<mu, links, vfVlan, cfgFiles, nextID, op, config, state,
                   loc, pre, lastApply>>

\* cleanupOnError: delete the host veth when state.networkConfigured is set
cleanupOnError_Network(p) ==
    /\ pc[p] = "cl_net"
    /\ \E ok \in (IF state[p].networkConfigured THEN FaultyBool ELSE {TRUE}) :
         Inject(~ok) /\
         LET n == getPairName(config[p].name, state[p].pauseContainerID)
             del == state[p].networkConfigured /\ ok
         IN /\ links' = IF del THEN LinkDel(links, n.host) ELSE links
            /\ containers' = IF del THEN NsLinkDel(containers, n.host) ELSE containers
    /\ pc' = Goto(p, "cl_pause")
    /\ UNCHANGED <<mu, vfVlan, cfgFiles, nextID, op, config, state,
                   loc, pre, lastApply>>

\* cleanupOnError: remove the pause container when state.pauseContainerID is set
cleanupOnError_Pause(p) ==
    /\ pc[p] = "cl_pause"
    /\ \E ok \in (IF state[p].pauseContainerID # NoID THEN FaultyBool ELSE {TRUE}) :
         Inject(~ok) /\
         containers' = IF state[p].pauseContainerID # NoID /\ ok
                       THEN ContainerRemove(containers, state[p].pauseContainerID)
                       ELSE containers
    /\ pc' = Goto(p, "c_unlock")
    /\ UNCHANGED <<mu, links, vfVlan, cfgFiles, nextID, op, config, state,
                   loc, pre, lastApply>>

\* createTRExContainer returns: the deferred mu.Unlock()
createTRExContainer_Unlock(p) ==
    /\ pc[p] = "c_unlock"
    /\ muUnlock(p)
    /\ lastApply' = IF loc[p].err = ""
                    THEN [valid |-> TRUE, name |-> config[p].name, pre |-> pre[p]]
                    ELSE NoApply
    /\ Return(p)
    /\ UNCHANGED <<hostVars, faults>>

\* ------------------------------------------------------------------ delete
\* what deleteTRExContainer reads of a delete request's config: Metadata.Name
NameOnly(c) ==
    [name |-> c.name, image |-> "", mgmtIP |-> "", mgmtGateway |-> "", brName |-> <<>>,
     networkType |-> "", parentInterface |-> <<>>, port |-> <<>>]

\* deleteTRExContainer: mu.Lock() of a delete request with a config of C
deleteTRExContainer_Lock(p, C) ==
    /\ FreeHandler(p)
    /\ muLock(p)
    /\ \E c \in C : config' = [config EXCEPT ![p] = NameOnly(c)]
    /\ op' = [op EXCEPT ![p] = "delete"]
    /\ pre' = [pre EXCEPT ![p] = Host]
    /\ pc' = Goto(p, "d_list")
    /\ UNCHANGED <<hostVars, faults, state, loc, lastApply>>

\* updateTRExContainer: an update request with a config of C; its first call is
\* deleteTRExContainer(config), before any LoadConfig
updateTRExContainer_DeleteLock(p, C) ==
    /\ FreeHandler(p)
    /\ nextID + 1 <= MaxID
    /\ muLock(p)
    /\ \E c \in C : config' = [config EXCEPT ![p] = c]
    /\ op' = [op EXCEPT ![p] = "update"]
    /\ pre' = [pre EXCEPT ![p] = Host]
    /\ pc' = Goto(p, "d_list")
    /\ UNCHANGED <<hostVars, faults, state, loc, lastApply>>

\* a scan that matches by substring instead of the exact name
FindBySubstring(cs, n) ==
    IF \E c \in cs : Contains(c.name, n) THEN (CHOOSE c \in cs : Contains(c.name, n)).id ELSE NoID

\* the ID of the listed container whose name is exactly n, "" when there is none
FindByName(cs, n) ==
    IF \E c \in cs : c.name = n THEN (CHOOSE c \in cs : c.name = n).id ELSE NoID

\* deleteTRExContainer: ContainerList (a failure returns "", nil), the exact-name
\* scan and the two "not exist" returns
deleteTRExContainer_List(p) ==
    /\ pc[p] = "d_list"
    /\ \E ok \in FaultyBool : Inject(~ok) /\
         LET cid == FindByName(containers, workName(config[p].name))
             pid == FindByName(containers, pauseName(config[p].name))
         IN IF ~ok
            THEN /\ loc' = [loc EXCEPT ![p].result = "", ![p].err = ""]
                 /\ pc' = Goto(p, "d_unlock")
            ELSE IF cid = NoID
            THEN /\ loc' = [loc EXCEPT ![p].listed = TRUE, ![p].result = "not_exist"]
                 /\ pc' = Goto(p, "d_unlock")
            ELSE IF pid = NoID
            THEN /\ loc' = [loc EXCEPT ![p].listed = TRUE, ![p].containerID = cid,
                                       ![p].result = "pause_not_exist"]
                 /\ pc' = Goto(p, "d_unlock")
            ELSE /\ loc' = [loc EXCEPT ![p].listed = TRUE, ![p].containerID = cid,
                                       ![p].pauseID = pid]
                 /\ pc' = Goto(p, "d_stop")
    /\ UNCHANGED <<mu, hostVars, op, config, state, pre, lastApply>>

\* deleteTRExContainer: ContainerStop of the worker; a failure is only logged
deleteTRExContainer_Stop(p) ==
    /\ pc[p] = "d_stop"
    /\ \E ok \in FaultyBool : Inject(~ok) /\
         containers' = IF ok
                       THEN {IF c.id = loc[p].containerID
                             THEN [c EXCEPT !.status = "exited", !.pid = 0]
                             ELSE c : c \in containers}
                       ELSE containers
    /\ pc' = Goto(p, "d_rm_worker")
    /\ UNCHANGED <<mu, links, vfVlan, cfgFiles, nextID, op, config, state,
                   loc, pre, lastApply>>

\* deleteTRExContainer: ContainerRemove(worker, force); a failure is returned
deleteTRExContainer_RemoveWorker(p) ==
    /\ pc[p] = "d_rm_worker"
    /\ \E ok \in FaultyBool : Inject(~ok) /\
         IF ~ok
         THEN /\ loc' = Fail(p, "remove_worker")
              /\ pc' = Goto(p, "d_unlock")
              /\ UNCHANGED containers
         ELSE /\ containers' = ContainerRemove(containers, loc[p].containerID)
              /\ pc' = Goto(p, "d_rm_pause")
              /\ UNCHANGED loc
    /\ UNCHANGED <<mu, links, vfVlan, cfgFiles, nextID, op, config, state,
                   pre, lastApply>>

\* deleteTRExContainer: ContainerRemove(pause, force); a failure is returned
deleteTRExContainer_RemovePause(p) ==
    /\ pc[p] = "d_rm_pause"
    /\ \E ok \in FaultyBool : Inject(~ok) /\
         IF ~ok
         THEN /\ loc' = Fail(p, "remove_pause")
              /\ pc' = Goto(p, "d_unlock")
              /\ UNCHANGED containers
         ELSE /\ containers' = ContainerRemove(containers, loc[p].pauseID)
              /\ pc' = Goto(p, "d_veth")
              /\ UNCHANGED loc
    /\ UNCHANGED <<mu, links, vfVlan, cfgFiles, nextID, op, config, state,
                   pre, lastApply>>

\* deleteVethPair: LinkByName then LinkDel; either may fail
deleteVethPair(ls, vethHost, out) ==
    IF out = "find_fail" \/ ~HasLink(ls, vethHost) THEN [err |-> "find", links |-> ls]
    ELSE IF out = "del_fail" THEN [err |-> "del", links |-> ls]
    ELSE [err |-> "", links |-> LinkDel(ls, vethHost)]

\* deleteTRExContainer: deleteVethPair of the host veth; a failure is only logged,
\* and the request returns "deleted"
deleteTRExContainer_Veth(p) ==
    /\ pc[p] = "d_veth"
    /\ \E out \in Outcomes({"ok", "find_fail", "del_fail"}) : Inject(out \notin Benign) /\
         LET n == getPairName(config[p].name, loc[p].pauseID)
             r == deleteVethPair(links, n.host, out)
         IN /\ links' = r.links
            /\ containers' = IF r.err = "" THEN NsLinkDel(containers, n.host)
                             ELSE containers
    /\ loc' = [loc EXCEPT ![p].result = "deleted"]
    /\ pc' = Goto(p, "d_unlock")
    /\ UNCHANGED <<mu, vfVlan, cfgFiles, nextID, op, config, state,
                   pre, lastApply>>

\* an update that goes on whatever deleteTRExContainer returned
updateGoesOnAnyway(e) == TRUE

\* updateTRExContainer: if _, err := deleteTRExContainer(config); err != nil { return }
updateGoesOn(e) == e = ""

\* deleteTRExContainer returns: the deferred mu.Unlock().  A delete request is
\* done.  updateTRExContainer returns delete's error, or goes on, outside the lock,
\* to LoadConfig (a computation on its own copy of config, taken here with the
\* return) and returns its error or calls createTRExContainer.
deleteTRExContainer_Unlock(p) ==
    /\ pc[p] = "d_unlock"
    /\ muUnlock(p)
    /\ lastApply' = NoApply
    /\ IF op[p] = "update" /\ updateGoesOn(loc[p].err) /\ LoadConfigErr(config[p]) = ""
       THEN /\ pc' = Goto(p, "u_create")
            /\ config' = [config EXCEPT ![p] = LoadConfigDefaults(@)]
            /\ loc' = [loc EXCEPT ![p] = InitLoc]
            /\ pre' = [pre EXCEPT ![p] = NoHost]
            /\ UNCHANGED <<op, state>>
       ELSE Return(p)
    /\ UNCHANGED <<hostVars, faults>>

\* ------------------------------------------------------------------ update
\* updateTRExContainer: createTRExContainer(config), which takes the lock again
updateTRExContainer_CreateLock(p) ==
    /\ pc[p] = "u_create"
    /\ muLock(p)
    /\ pre' = [pre EXCEPT ![p] = Host]
    /\ pc' = Goto(p, "c_load")
    /\ UNCHANGED <<hostVars, faults, op, config, state, loc, lastApply>>

\* ------------------------------------------------------------------ specification
\* one step of handler p, whose requests carry a config of C, on a host whose random
\* draws come from R
Step(p, C, R) ==
    \/ createTRExContainer_Lock(p, C)
    \/ createTRExContainer_LoadConfig(p)
    \/ createTRExContainer_List(p)
    \/ CreateTRExContainer_EnsureImages(p)
    \/ CreateTRExContainer_EnsureBridge(p)
    \/ createAndStartPauseContainer_Create(p)
    \/ createAndStartPauseContainer_Start(p)
    \/ createAndStartPauseContainer_GetPID(p)
    \/ configurePauseContainerNetwork_Veth(p)
    \/ configurePauseContainerNetwork_SetMaster(p)
    \/ configurePauseContainerNetwork_SetUp(p)
    \/ configurePauseContainerNetwork_SetNs(p)
    \/ configurePauseContainerNetwork_VF(p)
    \/ configurePauseContainerNetwork_InNs(p)
    \/ createWorkerContainer_Cfg(p, R)
    \/ createWorkerContainer_Create(p)
    \/ createWorkerContainer_Start(p)
    \/ cleanupOnError_Worker(p)
    \/ cleanupOnError_Network(p)
    \/ cleanupOnError_Pause(p)
    \/ createTRExContainer_Unlock(p)
    \/ deleteTRExContainer_Lock(p, C)
    \/ deleteTRExContainer_List(p)
    \/ deleteTRExContainer_Stop(p)
    \/ deleteTRExContainer_RemoveWorker(p)
    \/ deleteTRExContainer_RemovePause(p)
    \/ deleteTRExContainer_Veth(p)
    \/ deleteTRExContainer_Unlock(p)
    \/ updateTRExContainer_DeleteLock(p, C)
    \/ updateTRExContainer_CreateLock(p)

\* Requests served one after the other by one handler, with every config of Configs.
\* The mutex makes every host state of concurrent handlers one of these: a request
\* changes the host only between its Lock and its Unlock.
Next == Step(1, Configs, FreeRandomHosts)

Spec == Init /\ [][Next]_vars

\* NumProcs concurrent handlers; their requests carry a config of ConcConfigs.
NextConc == \E p \in Procs : Step(p, ConcConfigs, FreeRandomHosts)

SpecConc == Init /\ [][NextConc]_vars

\* a step of the request handler p is serving
Progress(p) == pc[p] # "idle" /\ Step(p, ConcConfigs, FreeRandomHosts)

\* The concurrent handlers under the scheduling of the Go runtime: a request that
\* can take a step takes it (every external call returns), and a request blocked
\* in mu.Lock() gets the mutex when it is released again and again (sync.Mutex
\* hands the lock to a waiter that has waited long enough).
SpecFair ==
    /\ SpecConc
    /\ \A p \in Procs : WF_vars(Progress(p))
    /\ \A p \in Procs : SF_vars(updateTRExContainer_CreateLock(p))

\* Requests served one after the other by one handler, with the configs of
\* CfgConfigs and every draw of RandomHosts: the specification of the cfg writer.
NextCfg == Step(1, CfgConfigs, RandomHosts)

SpecCfg == Init /\ [][NextCfg]_vars

\* Requests served one after the other by one handler, with the configs of
\* VethConfigs: the specification of the veth naming.
NextVeth == Step(1, VethConfigs, FreeRandomHosts)

SpecVeth == Init /\ [][NextVeth]_vars

\* Requests served one after the other by one handler, with the configs of
\* DummyConfigs and the draws of DummyHosts: the specification of the dummy address
\* generation.  A request in service takes the steps it can take: every external
\* call returns, and a draw that generateRandomIP returns with is drawn.
NextDummy == Step(1, DummyConfigs, DummyHosts)

SpecDummy == Init /\ [][NextDummy]_vars /\ WF_vars(pc[1] # "idle" /\ NextDummy)

\* -------------------------------------------------------------- properties
\* the positions from which a handler's next step changes the host
DeployPCs == {"ensure_image", "ensure_bridge", "pause_create", "pause_start",
              "pause_pid", "net_veth", "net_master", "net_up", "net_setns", "net_vf",
              "net_ns", "worker_cfg", "worker_create", "worker_start"}
CleanupPCs == {"cl_worker", "cl_net", "cl_pause"}
DeletePCs == {"d_stop", "d_rm_worker", "d_rm_pause", "d_veth"}
MutatingPCs == DeployPCs \cup CleanupPCs \cup DeletePCs

HasContainer(cs, n) == \E c \in cs : c.name = n
WorkerOrPause(cs, name) == HasContainer(cs, workName(name)) \/ HasContainer(cs, pauseName(name))
WorkerAndPause(cs, name) == HasContainer(cs, workName(name)) /\ HasContainer(cs, pauseName(name))
HasBridge(ls, b) == \E l \in ls : l.name = b /\ l.kind = "bridge"

\* createTRExContainer is about to return an error of the deployment itself
FailedDeployment(p) ==
    pc[p] = "c_unlock" /\ loc[p].err \notin {"", "load_config", "list", "exists", "panic"}

\* C1: starting with no container named <name> or <name>-pause, after an apply that
\* failed during deployment no container named <name> or <name>-pause remains.
C1_CompensationContainers ==
    \A p \in Procs :
        (FailedDeployment(p) /\ ~WorkerOrPause(pre[p].containers, config[p].name))
            => ~WorkerOrPause(containers, config[p].name)

\* C2: after an apply that failed during deployment no link named trex_<name9>
\* exists in the host namespace.
C2_CompensationVeth ==
    \A p \in Procs :
        FailedDeployment(p) => ~HasLink(links, getPairName(config[p].name, NoID).host)

\* C3: a request that is at a host-mutating step holds the process-wide lock, so at
\* most one request is at such a step.
C3_SingleWriter ==
    /\ \A p \in Procs : pc[p] \in MutatingPCs => mu = p
    /\ Cardinality({p \in Procs : pc[p] \in MutatingPCs}) <= 1

C3_Witness ==
    \E p, q \in Procs : p # q /\ pc[p] \in DeletePCs /\ pc[q] = "u_create"

\* C4: while an update is in flight, from the start of its delete phase to the end of
\* its apply phase, no other request is at a host-mutating step.
C4_UpdateExclusive ==
    \A p, q \in Procs :
        (p # q /\ op[p] = "update" /\ pc[p] # "idle") => pc[q] \notin MutatingPCs

\* C5: an apply of a valid spec whose worker and pause containers exist (the state a
\* first apply of it leaves) runs no deployment and no compensation step, leaves the
\* host state as it was and returns the name-collision error (the list error when
\* the engine fails to list).
C5_SecondApply ==
    \A p \in Procs :
        (/\ op[p] = "apply"
         /\ pc[p] # "idle"
         /\ LoadConfigErr(config[p]) = ""
         /\ WorkerAndPause(pre[p].containers, config[p].name))
            => /\ pc[p] \in {"c_load", "c_list", "c_unlock"}
               /\ Host = pre[p]
               /\ state[p] = InitState
               /\ pc[p] = "c_unlock" =>
                    /\ loc[p].err \in {"exists", "list"}
                    /\ loc[p].listed => loc[p].err = "exists"

C5_Witness ==
    \E p \in Procs :
        /\ op[p] = "apply" /\ pc[p] = "c_unlock" /\ loc[p].err = "exists"
        /\ lastApply.valid /\ lastApply.name = config[p].name
        /\ WorkerAndPause(pre[p].containers, config[p].name)

\* C6: a successful delete(S) right after a successful apply(S) leaves the host state
\* (containers, links, VF VLANs, cfg files) as it was before the apply, the bridge
\* left aside.
C6_RoundTrip ==
    \A p \in Procs :
        (/\ op[p] = "delete" /\ pc[p] = "d_unlock"
         /\ loc[p].err = "" /\ loc[p].result = "deleted"
         /\ lastApply.valid /\ lastApply.name = config[p].name)
            => ModBridge(Host, brName) = ModBridge(lastApply.pre, brName)

\* C7: an apply or an update whose spec fails validation leaves the host state as it
\* was before the request.
C7_ValidationNoSideEffects ==
    \A p \in Procs :
        (/\ op[p] \in {"apply", "update"}
         /\ pc[p] \in {"c_unlock", "d_unlock"}
         /\ LoadConfigErr(config[p]) # "")
            => Host = pre[p]

\* C8: no step of an apply (compensation included), update or delete removes a
\* bridge: a bridge that exists still exists after every step.
C8_BridgeNeverRemoved ==
    [][\A l \in links : l.kind = "bridge" => HasBridge(links', l.name)]_vars

\* C9: a delete (or the delete phase of an update) that finds the worker or the pause
\* container missing takes no stop, remove or link-delete step, leaves the host state
\* as it was and returns the "not exist" result without error.
C9_DeleteNotPresent ==
    \A p \in Procs :
        (/\ op[p] \in {"delete", "update"}
         /\ pc[p] \in DeletePCs \cup {"d_list", "d_unlock"}
         /\ ~WorkerAndPause(pre[p].containers, config[p].name))
            => /\ pc[p] \in {"d_list", "d_unlock"}
               /\ Host = pre[p]
               /\ pc[p] = "d_unlock" =>
                    /\ loc[p].err = ""
                    /\ loc[p].listed => loc[p].result \in {"not_exist", "pause_not_exist"}

C9_Witness ==
    \E p \in Procs :
        /\ op[p] = "delete" /\ pc[p] = "d_unlock"
        /\ loc[p].result \in {"not_exist", "pause_not_exist"}
        /\ WorkerOrPause(containers, config[p].name)
        /\ ~WorkerAndPause(containers, config[p].name)

\* C10: a delete that found both containers and returns success leaves no container
\* named <name> or <name>-pause and no host link trex_<name9>; the bridge is present.
C10_DeleteAfterApply ==
    \A p \in Procs :
        (/\ op[p] = "delete" /\ pc[p] = "d_unlock"
         /\ WorkerAndPause(pre[p].containers, config[p].name)
         /\ loc[p].err = "" /\ loc[p].result = "deleted")
            => /\ ~WorkerOrPause(containers, config[p].name)
               /\ ~HasLink(links, getPairName(config[p].name, NoID).host)
               /\ HasBridge(links, brName)

\* the positions of createTRExContainer, from its LoadConfig to its return
CreatePCs == {"c_load", "c_list", "c_unlock"} \cup DeployPCs \cup CleanupPCs

\* C11: an update runs its delete phase first and its apply phase only after the
\* delete phase has returned (lock released): when delete returns without error
\* (the "not exist" results included) the update goes on to validation and, for a
\* spec that passes it, to createTRExContainer; when delete returns an error the
\* update returns and no apply step runs.
C11_UpdateDeleteThenApply ==
    [][\A p \in Procs : op[p] = "update" =>
          /\ (pc[p] = "d_unlock" /\ pc'[p] # "d_unlock") =>
                /\ mu' # p
                /\ pc'[p] = IF loc[p].err = "" /\ LoadConfigErr(config[p]) = ""
                            THEN "u_create" ELSE "idle"
          /\ (pc'[p] \in CreatePCs /\ pc[p] \notin CreatePCs) =>
                pc[p] = "u_create" /\ pc'[p] = "c_load"]_vars

C11_Witness ==
    \E p \in Procs :
        /\ op[p] = "update" /\ pc[p] \in DeployPCs
        /\ ~WorkerOrPause(pre[p].containers, config[p].name)

\* createTRExContainer has called CreateTRExContainer and is about to return
EndedDeployment(p) ==
    pc[p] = "c_unlock" /\ loc[p].err \notin {"load_config", "list", "exists"}

\* C12: an apply that has started deployment ends, before its lock is released,
\* with the worker running or with what its deployment state records undone: the
\* pause container it created removed; this also when opening the pause
\* container's /proc/<pid>/ns/net fails.
C12_CompleteOrCompensate ==
    \A p \in Procs :
        EndedDeployment(p) =>
            \/ /\ loc[p].err = ""
               /\ \E c \in containers :
                     c.id = state[p].workerContainerID /\ c.status = "running"
            \/ /\ loc[p].err # ""
               /\ \A c \in containers :
                     c.id = NoID \/ c.id \notin {state[p].pauseContainerID,
                                                 state[p].workerContainerID}

\* C13: every existing worker container <name> has network mode container:<id>
\* where <id> is the ID of an existing container named <name>-pause.
C13_WorkerHasPause ==
    \A w \in containers :
        w.netmode[1] = "container" =>
            \E c \in containers :
                c.id = w.netmode[2] /\ c.name = w.name \o S_pause

\* C14: when an apply of an SRIOV spec fails because the VF of one of its ports does
\* not exist (no call of the host having failed), the host state at its return is the state before the apply, the
\* bridge left aside: VF VLANs as before, no container, no veth.
C14_MissingVFNoSideEffects ==
    \A p \in Procs :
        (/\ pc[p] = "c_unlock" /\ loc[p].err = "vf_resolve"
         /\ faults = 0
         /\ config[p].networkType = "SRIOV"
         /\ \E k \in 1..Len(config[p].port) : config[p].port[k].vfIndex \notin ExistingVFs)
            => ModBridge(Host, config[p].brName) = ModBridge(pre[p], config[p].brName)

\* the port configuration createVFConfigFile has just written for request p
WrittenCfg(p) == (CHOOSE f \in cfgFiles : f.name = config[p].name).content

\* createVFConfigFile has succeeded for request p
CfgWritten(p) ==
    pc[p] = "worker_create" /\ \E f \in cfgFiles : f.name = config[p].name

\* C15: the port configuration generated for a workload with n >= 1 ports has
\* port_limit = 2n, 2n interfaces and 2n port_info entries.
C15_CfgSizes ==
    \A p \in Procs :
        CfgWritten(p) =>
            LET n == Len(config[p].port)
                cfg == WrittenCfg(p)
            IN /\ cfg.port_limit = 2 * n
               /\ Len(cfg.interfaces) = 2 * n
               /\ Len(cfg.port_info) = 2 * n

\* C16: in the generated port configuration, for every port i (0-based, in spec
\* order) interfaces[2i] is the PCI address resolved for the port's VF and
\* interfaces[2i+1] is "dummy".
C16_CfgAlternation ==
    \A p \in Procs :
        CfgWritten(p) =>
            LET cfg == WrittenCfg(p)
            IN \A i \in 1..Len(config[p].port) :
                  /\ 2 * i <= Len(cfg.interfaces)
                  /\ cfg.interfaces[2 * i - 1] = PciOf(config[p].port[i].vfIndex)
                  /\ cfg.interfaces[2 * i] = <<"dummy">>

\* the distance between two IPv4 addresses
IPDiff(a, b) == (((a[1] - b[1]) * 256 + (a[2] - b[2])) * 256 + (a[3] - b[3])) * 256 + (a[4] - b[4])

\* C17: the address in the dummy slot of every port lies in the port's CIDR and is
\* not the network address, the broadcast address, the port's real IP or the
\* port's gateway, whatever the random draw.
C17_DummyExclusion ==
    \A p \in Procs :
        CfgWritten(p) =>
            LET cfg == WrittenCfg(p)
                n == Len(config[p].port)
                base == Len(cfg.port_info) - 2 * n
            IN \A i \in 1..n :
                  LET real == cfg.port_info[base + 2 * i - 1]
                      dummy == cfg.port_info[base + 2 * i]
                      ipNet == ParseCIDR(real.ip)
                      host == IPDiff(dummy.ip, ipNet.ip)
                  IN /\ host > 0 /\ host < ipNet.totalIPs - 1
                     /\ dummy.ip # SubSeq(real.ip, 1, 4)
                     /\ dummy.ip # real.default_gateway

\* the workload name truncated to at most 9 bytes
Name9(name) == SubSeq(name, 1, IF Len(name) < 9 THEN Len(name) ELSE 9)

\* C18: the host veth of a workload is named trex_<name9>, <name9> being the first
\* 9 bytes of the workload name: once createVethPair has succeeded for a request,
\* a veth of that name is on the host (so two names with the same first 9 bytes,
\* one of them 10 bytes long, have the same host veth name).
C18_VethName ==
    \A p \in Procs :
        pc[p] = "net_master" =>
            \E l \in links : l.kind = "veth" /\ l.name = S_trex_ \o Name9(config[p].name)

\* a link with the name of h's links that the spec c takes for its bridge, and that
\* is not a bridge
Squatted(h, c) ==
    \E l \in h.links : l.name = LoadConfigDefaults(c).brName /\ l.kind # "bridge"

\* C19: an apply on a host where a link with the bridge's name is not a bridge makes
\* no step past EnsureBridge and leaves the host state as it was (no container, no
\* veth, the squatting link untouched); it fails, and when it has come to look the
\* bridge up, with the error "already exists but is not a bridge".
C19_BridgeSquatting ==
    \A p \in Procs :
        (op[p] = "apply" /\ pc[p] \in CreatePCs /\ Squatted(pre[p], config[p])) =>
            /\ pc[p] \in {"c_load", "c_list", "ensure_image", "ensure_bridge", "c_unlock"}
                        \cup CleanupPCs
            /\ Host = pre[p]
            /\ state[p] = InitState
            /\ pc[p] = "c_unlock" =>
                  /\ loc[p].err \in {"load_config", "list", "exists", "pause_image",
                                     "trex_image", "add", "lookup", "not_a_bridge"}
                  /\ (/\ faults = 0 /\ LoadConfigErr(config[p]) = ""
                      /\ ~NameCollides(pre[p].containers, config[p].name))
                        => loc[p].err = "not_a_bridge"

C19_Witness ==
    \E p \in Procs :
        /\ op[p] = "apply" /\ pc[p] = "c_unlock" /\ loc[p].err = "not_a_bridge"
        /\ Squatter \in links /\ Squatted(pre[p], config[p])

\* the errors of the steps after plumbing: the cfg writer's and the worker's
AfterPlumbingErrs == {"vf_pci_missing", "mkdir_fail", "write_fail", "worker_create",
                      "worker_start"}

C21_IdempotentBridge ==
    [][\A p \in Procs :
          (/\ pc[p] = "ensure_bridge" /\ pc'[p] # "ensure_bridge"
           /\ faults' = faults
           /\ HasBridge(links, config[p].brName))
             => /\ pc'[p] = "pause_create"
                /\ loc'[p].err = ""
                /\ state'[p].bridgeCreated
                /\ links' = {IF l.name = config[p].brName THEN [l EXCEPT !.up = TRUE]
                             ELSE l : l \in links}
                /\ Cardinality({l \in links' : l.name = config[p].brName}) = 1
                /\ \A l \in links : l.name = config[p].brName /\ l.up => links' = links]_vars

C21_Witness ==
    \E p \in Procs :
        /\ pc[p] = "pause_create" /\ state[p].bridgeCreated
        /\ \E l \in pre[p].links : l.name = config[p].brName /\ l.kind = "bridge" /\ l.up
        /\ links = pre[p].links

\* a port of request p whose VF <parent>v<vfIndex> has no entry in vfPCIMap
UnresolvedVF(p) ==
    \E k \in 1..Len(config[p].port) :
        ~MapHas(loc[p].vfPCIMap, vfNameOf(config[p].parentInterface, config[p].port[k].vfIndex))

\* C22: when a port's VF has no entry in vfPCIMap, createVFConfigFile returns the
\* missing-VF error: the request never gets to the worker steps with such a port,
\* and an apply that ends with that error has written no cfg file and has created
\* no worker container.
C22_UnresolvedVF ==
    \A p \in Procs :
        /\ pc[p] \in {"worker_create", "worker_start"} => ~UnresolvedVF(p)
        /\ (pc[p] \in CleanupPCs \cup {"c_unlock"}
                /\ state[p].networkConfigured /\ UnresolvedVF(p))
              => loc[p].err = "vf_pci_missing"
        /\ loc[p].err = "vf_pci_missing" =>
              /\ UnresolvedVF(p)
              /\ pc[p] \in CleanupPCs \cup {"c_unlock"}
              /\ cfgFiles = pre[p].cfgFiles
              /\ loc[p].cfgPath = <<>>
              /\ loc[p].workerID = NoID /\ state[p].workerContainerID = NoID
              /\ ~HasContainer(containers, workName(config[p].name))

C22_Witness ==
    \E p \in Procs :
        /\ pc[p] = "c_unlock" /\ loc[p].err = "vf_pci_missing"
        /\ config[p].networkType = "BRIDGE" /\ UnresolvedVF(p)

\* the steps of CreateTRExContainer in the order of its code
DeployOrder == <<"ensure_image", "ensure_bridge", "pause_create", "pause_start",
                 "pause_pid", "net_veth", "net_master", "net_up", "net_setns", "net_vf",
                 "net_ns", "worker_cfg", "worker_create", "worker_start">>

\* the pause container of request p runs with the PID the request holds
PauseRunning(p) ==
    \E c \in containers :
        /\ c.id = state[p].pauseContainerID /\ c.id # NoID
        /\ c.name = pauseName(config[p].name)
        /\ c.status = "running" /\ c.pid # 0 /\ c.pid = state[p].pausePID

\* the plumbing of request p is complete: the host veth is up on the bridge, its
\* peer is mgmt in the pause namespace, up and with the address
PlumbingDone(p) ==
    /\ state[p].networkConfigured
    /\ \E l \in links :
          /\ l.name = getPairName(config[p].name, state[p].pauseContainerID).host
          /\ l.kind = "veth" /\ l.up /\ l.master = config[p].brName
    /\ \E c \in containers :
          /\ c.id = state[p].pauseContainerID
          /\ c.ns.link = "mgmt" /\ c.ns.up /\ c.ns.addr

\* C23: the steps of an apply occur in the order image ensure, bridge ensure, pause
\* create, start and PID, plumbing, cfg generation, worker create and start, each
\* entered only from the one before it and without error; and a worker container
\* is created only while the pause container runs with a valid PID, plumbing is
\* complete and the cfg file is written.
C23_DeploymentOrder ==
    [][/\ (\E c \in containers' :
               c.netmode[1] = "container" /\ \A d \in containers : d.id # c.id) =>
            \E p \in Procs :
                /\ pc[p] = "worker_create"
                /\ PauseRunning(p) /\ PlumbingDone(p)
                /\ \E f \in cfgFiles : f.name = config[p].name /\ f.name = loc[p].cfgPath
       /\ \A p \in Procs :
          /\ (pc'[p] \in DeployPCs /\ pc'[p] # pc[p]) =>
                /\ loc'[p].err = ""
                /\ \/ pc[p] = "c_list" /\ pc'[p] = DeployOrder[1]
                   \/ \E i \in 1..(Len(DeployOrder) - 1) :
                         pc[p] = DeployOrder[i] /\ pc'[p] = DeployOrder[i + 1]
          /\ (\E i \in 3..Len(DeployOrder) : pc[p] = DeployOrder[i]) => state[p].bridgeCreated
          /\ (\E i \in 6..Len(DeployOrder) : pc[p] = DeployOrder[i]) => PauseRunning(p)
          /\ (\E i \in 12..Len(DeployOrder) : pc[p] = DeployOrder[i]) => PlumbingDone(p)]_vars

C23_Witness ==
    \E p \in Procs :
        /\ pc[p] = "worker_start" /\ PauseRunning(p) /\ PlumbingDone(p)
        /\ \E c \in containers : c.id = loc[p].workerID /\ c.netmode[1] = "container"

\* the worker container request p has created
CreatedWorker(p) == {c \in containers : c.id = loc[p].workerID /\ c.id # NoID}

\* C24: compensation undoes in reverse order of progress: when it comes to delete
\* the host veth, and then to remove the pause container, the worker container the
\* failing apply created has been removed.
C24_CompensationOrder ==
    \A p \in Procs :
        pc[p] \in {"cl_net", "cl_pause"} => CreatedWorker(p) = {}

\* the containers cs are those of live workloads: every worker with its pause
\* container and every pause container with its worker
LiveWorkloadsOnly(cs) ==
    \A c \in cs : \E d \in cs :
        \/ c.netmode = <<"container", d.id>> /\ d.name = c.name \o S_pause
        \/ d.netmode = <<"container", c.id>> /\ c.name = d.name \o S_pause

\* C25: on a host whose containers are those of live workloads, an apply whose
\* container list succeeded is refused with the name-collision error exactly when
\* a container named <name> or <name>-pause exists; containers of other workloads
\* whose names only contain <name> do not cause a refusal.
C25_CollisionPrecision ==
    \A p \in Procs :
        (pc[p] = "c_unlock" /\ loc[p].listed /\ LiveWorkloadsOnly(pre[p].containers)) =>
            (loc[p].err = "exists" <=> WorkerOrPause(pre[p].containers, config[p].name))

\* the workload names of the requests
WorkloadNames == {c.name : c \in Configs} \ {<<>>}

\* createTRExContainer refuses the name n on the containers cs
ApplyRefused(cs, n) == NameCollides(cs, n)

\* deleteTRExContainer answers "not exist" for the name n on the containers cs
DeleteNotExist(cs, n) ==
    FindByName(cs, workName(n)) = NoID \/ FindByName(cs, pauseName(n)) = NoID

\* C26: between requests there is no workload name with a container of its own
\* (<name> or <name>-pause) for which apply is refused with the name collision
\* while delete answers "not exist".
C26_NoUnrecoverableLeftovers ==
    (\A p \in Procs : pc[p] = "idle") =>
        \A n \in WorkloadNames :
            ~(/\ WorkerOrPause(containers, n)
              /\ ApplyRefused(containers, n)
              /\ DeleteNotExist(containers, n))

\* the workload names of the veth naming specification
VethNames == {c.name : c \in VethConfigs}

\* C27: no step of an apply of workload B changes or removes the host veth of a
\* live workload A of another name (its worker and pause containers exist), also
\* when the two names have the same first 9 bytes.
C27_ForeignVethKept ==
    [][\A p \in Procs :
          (op[p] \in {"apply", "update"} /\ pc[p] \in CreatePCs) =>
              \A n \in VethNames \ {config[p].name} :
                  WorkerAndPause(containers, n) =>
                      \A l \in links :
                          l.name = getPairName(n, NoID).host => l \in links']_vars

\* the positions of a request that holds no lock and has read nothing of the host
OutsidePCs == {"idle", "u_create"}

\* C28: from the failing step of an apply to the end of its compensation the
\* request holds the lock: every other request is outside its critical sections
\* (it has not listed the containers of the host and changes nothing), and no
\* step of another request happens in between.
C28_CompensationLocked ==
    [][\A p \in Procs :
          (pc[p] \in CleanupPCs \/ (pc[p] = "c_unlock" /\ loc[p].err # "")) =>
              /\ mu = p
              /\ \A q \in Procs \ {p} :
                    /\ pc[q] \in OutsidePCs
                    /\ pc'[q] = pc[q] /\ loc'[q] = loc[q] /\ state'[q] = state[q]
              /\ pc[p] \in CleanupPCs => mu' = p]_vars

C28_Witness ==
    \E p, q \in Procs :
        /\ p # q /\ pc[p] = "cl_pause" /\ state[p].pauseContainerID # NoID
        /\ \E c \in containers : c.id = state[p].pauseContainerID
        /\ pc[q] = "u_create"

C30_DummyTerminates ==
    \A p \in Procs : (pc[p] = "worker_cfg") ~> (pc[p] # "worker_cfg")

\* C31: getValidContainerPID returns a PID only from an inspect attempt that showed
\* the container running with a PID > 0 whose process is alive; it makes at most
\* maxRetries attempts; it returns an error when an inspect fails, when the
\* container is not running, or when maxRetries attempts showed no live PID, and
\* in no other case.
C31_ValidPid ==
    [][\A p \in Procs : pc[p] = "pause_pid" =>
          /\ loc[p].retry <= maxRetries
          /\ pc'[p] \in {"pause_pid", "net_veth", "cl_worker"}
          /\ pc'[p] = "net_veth" =>
                /\ loc[p].retry < maxRetries /\ loc'[p].obs = "alive"
                /\ loc'[p].err = "" /\ state'[p].pausePID > 0
                /\ \E c \in containers :
                      c.id = state'[p].pauseContainerID /\ c.pid = state'[p].pausePID
          /\ pc'[p] = "cl_worker" =>
                /\ loc'[p].err = "pause_pid" /\ state'[p].pausePID = 0
                /\ \/ loc[p].retry < maxRetries /\ loc'[p].obs \in {"inspect_err", "not_running"}
                   \/ loc[p].retry = maxRetries /\ loc[p].obs \in {"no_pid", "not_alive"}
          /\ (loc[p].retry < maxRetries /\ loc'[p].obs = "inspect_err") => pc'[p] = "cl_worker"
          /\ loc[p].retry = maxRetries => pc'[p] = "cl_worker"
          /\ (pc'[p] = "pause_pid" /\ loc'[p] # loc[p]) =>
                /\ loc'[p].retry = loc[p].retry + 1
                /\ loc'[p].obs \in {"no_pid", "not_alive"}]_vars

C31_Witness ==
    \E p \in Procs :
        /\ pc[p] = "net_veth" /\ loc[p].obs = "alive" /\ loc[p].retry = maxRetries - 1
        /\ state[p].pausePID > 0

\* C32: an inspect attempt that fails one of the three conditions (status not
\* running, no PID, process not alive) is followed by another attempt as long as
\* fewer than maxRetries attempts are made, so that a later attempt that meets them
\* gives the PID.
C32_TransientRetried ==
    [][\A p \in Procs :
          (/\ pc[p] = "pause_pid" /\ loc[p].retry < maxRetries - 1
           /\ pc'[p] # "net_veth"
           /\ loc'[p].obs \in {"not_running", "no_pid", "not_alive"})
             => pc'[p] = "pause_pid" /\ loc'[p].retry = loc[p].retry + 1]_vars

\* C33: a delete whose container list failed returns an error and leaves the host
\* as it was; a delete returns without error only with the result "deleted" or
\* "not exist".
C33_DeletePropagates ==
    \A p \in Procs :
        (op[p] = "delete" /\ pc[p] = "d_unlock") =>
            /\ ~loc[p].listed => (loc[p].err # "" /\ Host = pre[p])
            /\ loc[p].err = "" => loc[p].result \in {"deleted", "not_exist", "pause_not_exist"}

\* C34: an apply of a valid BRIDGE spec on a host with no colliding container name
\* and a free (or bridge) bridge name, no call of the host failing and the pause
\* container's PID becoming live within the polls, ends with success, its pause
\* and worker containers running, and the VF VLANs as before.
C34_BridgeDeploys ==
    \A p \in Procs :
        (/\ op[p] = "apply" /\ pc[p] = "c_unlock"
         /\ config[p].networkType = "BRIDGE"
         /\ LoadConfigErr(config[p]) = ""
         /\ ~NameCollides(pre[p].containers, config[p].name)
         /\ ~Squatted(pre[p], config[p])
         /\ faults = 0 /\ loc[p].err # "pause_pid")
            => /\ loc[p].err = "" /\ loc[p].result = "created"
               /\ \E c \in containers :
                     c.name = workName(config[p].name) /\ c.status = "running"
               /\ \E c \in containers :
                     c.name = pauseName(config[p].name) /\ c.status = "running"
               /\ vfVlan = pre[p].vfVlan

====
